---- MODULE Spec2Model ----
(***************************************************************************)
(* Model of the audio capture / playback layer (audio.ts): the Recorder    *)
(* returned by createRecorder, the shared <audio> element with primeAudio  *)
(* and playBlob.  Time is counted in seconds; Date.now() is `now`.         *)
(***************************************************************************)
EXTENDS Integers, Sequences, FiniteSets, TLC

\* ---- program constants ----
StopTimeout == 3            \* setTimeout(..., 3000) in stop()

\* ---- bounds of the model ----
MaxTime == 2                \* callers act while now <= MaxTime
MaxOps == 3                 \* calls made on one Recorder
MaxStops == 2               \* stop() calls (promises) on one Recorder
MaxData == 1                \* units of audio the device captures
MaxQueue == 3               \* device events queued and not yet delivered
MaxTracks == 1              \* audio tracks of the stream
MaxPlays == 2               \* playBlob() calls
MaxPrimes == 2              \* primeAudio() calls
MaxCalls == 3                \* calls of primeAudio() and playBlob() together
MaxCards == 2               \* prompts of the module practised
MaxRecorders == 2           \* Recorders the UI starts on one stream
MaxListens == 1             \* speak() calls in progress at a time
MaxSaved == 1               \* recordings in the store
MaxUiPlays == 2             \* playBlob() calls the UI makes
MaxAudio == 2               \* units of audio captured when delivery modes are compared

VARIABLES
  now,        \* Date.now()
  tracks,     \* stream.getAudioTracks(): readyState of each track
  iosSafari,  \* isIOS() || isSafari()
  recState,   \* recorder.state of the MediaRecorder
  timeslice,  \* the MediaRecorder was started with a timeslice
  devQueue,   \* events the MediaRecorder has queued: "data", "stop"
  dataSeq,    \* number of units of audio the device has delivered
  chunks,     \* chunks: Blob[]; a Blob is the sequence of audio units it holds
  startTime,  \* startTime
  stopped,    \* stopped
  onstop,     \* recorder.onstop: 0 = unset, k = handler of the k-th stop()
  stops,      \* the promises returned by stop(), in call order
  runs,       \* number of start() calls that reset the Recorder
  lastOp,     \* the last call on the Recorder and how it ended
  opCount,    \* number of calls made on the Recorder
  playReturnsPromise, \* audio.play() returns a promise on this platform
  audioSrc,     \* sharedAudio: the src attribute: NoSrc, SilentWav, or k for
                \* the data URI of the k-th playBlob
  audioMedia,   \* sharedAudio: the media resource it holds, likewise
  mediaState,   \* sharedAudio: "empty", "loading", "ready" (readyState >= 3), "error"
  audioPlaying, \* sharedAudio: not paused and not ended
  onended,      \* sharedAudio.onended: 0 = null, k = handler of the k-th playBlob
  onerror,      \* sharedAudio.onerror: likewise
  audioPrimed,  \* audioPrimed
  primes,       \* the primeAudio() calls, in order
  plays,        \* the playBlob() calls, in order
  cb,           \* the caller's callbacks invoked by the last step, in order
  screen,         \* App: the screen shown: "home", "session", "progress"
  card,           \* Session: number of the PromptCard mounted (currentIndex + 1)
  phase,          \* PromptCard: phase
  recording,      \* PromptCard: recording: 0 = null, i = result of the i-th Recorder
  recorderRef,    \* PromptCard: recorderRef.current: 0 = null, i = the i-th Recorder
  recognitionRef, \* PromptCard: recognitionRef.current is set
  cleanupRef,     \* cleanupRef.current of the mounted component is set
  speaking,       \* PromptCard: handleListen calls waiting for speak()
  stopping,       \* PromptCard: handleStopRecording calls waiting at an await
  saving,         \* cards whose handleComplete waits for saveRecording()
  recorders,      \* the Recorders the UI has started on the session's stream
  playback,       \* a playBlob() of the UI is in flight and not cancelled
  playingId,      \* Progress: playingId: 0 = null
  saved,          \* number of recordings in the store
  primeCalled,    \* the UI has called primeAudio()
  playCalls,      \* number of playBlob() calls the UI has made
  speechSupported, \* isSpeechRecognitionSupported()
  supported,      \* MediaRecorder.isTypeSupported on this platform, per candidate:
                  \* "yes", "no" or "throws"
  mimeType,       \* createRecorder: mimeType; Unset before getSupportedMimeType()
  audioLen        \* units of audio there are for the device to capture

recVars == <<tracks, iosSafari, recState, timeslice, devQueue, dataSeq,
             chunks, startTime, stopped, onstop, stops, runs, lastOp, opCount>>
playVars == <<playReturnsPromise, audioSrc, audioMedia, mediaState, audioPlaying,
              onended, onerror, audioPrimed, primes, plays, cb>>
uiVars == <<screen, card, phase, recording, recorderRef, recognitionRef,
            cleanupRef, speaking, stopping, saving, recorders, playback, playingId,
            saved, primeCalled, playCalls, speechSupported>>
envVars == <<supported, mimeType, audioLen>>
vars == <<now, recVars, playVars, uiVars, envVars>>

NoSrc == 0          \* no src attribute
SilentWav == -1     \* SILENT_WAV

TrackStates == {"live", "ended"}

RECURSIVE SeqsUpTo(_, _)
SeqsUpTo(S, n) ==
  IF n = 0 THEN {<<>>}
  ELSE LET shorter == SeqsUpTo(S, n - 1)
       IN  shorter \cup {Append(s, x) : s \in {t \in shorter : Len(t) = n - 1}, x \in S}

\* mutant: the track's readyState is not looked at
isStreamActiveAnyTrack(stream) == Len(stream) > 0

\* ---- Stream Health Monitor ----
isStreamActive(stream) == Len(stream) > 0 /\ stream[1] = "live"

\* ---- MIME type detection ----
\* the candidates of getSupportedMimeType(), in list order
types == <<"audio/mp4", "audio/webm;codecs=opus", "audio/webm",
           "audio/ogg;codecs=opus", "audio/ogg">>

Candidates == {types[i] : i \in 1..Len(types)}

Unset == "unset"

\* MediaRecorder.isTypeSupported(t) on a platform: it returns or it throws
isTypeSupported(platform, t) ==
  [threw |-> platform[t] = "throws", value |-> platform[t] = "yes"]

\* mutant: a throwing query counts as supported
tryIsTypeSupportedLax(platform, t) ==
  isTypeSupported(platform, t).threw \/ isTypeSupported(platform, t).value

\* try { if (MediaRecorder.isTypeSupported(t)) return t } catch {}: whether
\* the scan returns at candidate t
tryIsTypeSupported(platform, t) ==
  LET r == isTypeSupported(platform, t)
  IN  IF r.threw THEN FALSE ELSE r.value

\* the for loop of getSupportedMimeType() from the i-th candidate on
RECURSIVE scanTypes(_, _)
scanTypes(platform, i) ==
  IF i > Len(types) THEN ""
  ELSE IF tryIsTypeSupported(platform, types[i]) THEN types[i]
  ELSE scanTypes(platform, i + 1)

getSupportedMimeType(platform) == scanTypes(platform, 1)

\* a platform that supports every candidate
AllSupported == [t \in Candidates |-> "yes"]

\* ---- the MediaRecorder (platform) ----
\* recorder.start(): InvalidStateError unless inactive; other faults possible
MediaRecorderStart(state, fault) ==
  IF state # "inactive" \/ fault
  THEN [threw |-> TRUE, state |-> state]
  ELSE [threw |-> FALSE, state |-> "recording"]

\* ---- Recorder helpers ----
\* the audio units a + 1 .. b, in order
Units(a, b) == [i \in 1..(b - a) |-> a + i]

\* new Blob(chunks, { type }): the parts one after the other
RECURSIVE buildBlob(_)
buildBlob(cs) == IF cs = <<>> THEN <<>> ELSE Head(cs) \o buildBlob(Tail(cs))

Recording(cs, st, t) == [blob |-> buildBlob(cs), duration |-> t - st]

\* mutant: the guard branch does not look at startTime
GuardRecordingNoCheck(cs, st, t) == [blob |-> buildBlob(cs), duration |-> t - st]

\* duration of the guard branch of stop(): startTime ? now - startTime : 0
GuardRecording(cs, st, t) ==
  [blob |-> buildBlob(cs), duration |-> IF st # 0 THEN t - st ELSE 0]

\* mutant: the device state is not looked at
isRecordingFlagOnly == ~stopped

\* mutant: the stopped flag is not looked at
isRecordingDeviceOnly == recState = "recording"

isRecording == ~stopped /\ recState = "recording"

NoRecording == [blob |-> <<>>, duration |-> 0]

\* resolve(...) of the k-th promise: only the first call settles it
Resolve(S, k, rec) ==
  IF S[k].status = "pending"
  THEN [S EXCEPT ![k].status = "resolved", ![k].rec = rec]
  ELSE S

ClearTimeout(S, k) == [S EXCEPT ![k].timer = -1]

TimerDue == \E k \in 1..Len(stops) : stops[k].timer = 0
TimerActive == \E k \in 1..Len(stops) : stops[k].timer >= 0

\* a Recorder just constructed over a stream, on some platform
RecorderInit ==
  /\ now = 1              \* Date.now() is never 0
  /\ recState = "inactive"
  /\ timeslice = FALSE
  /\ devQueue = <<>>
  /\ dataSeq = 0
  /\ chunks = <<>>
  /\ startTime = 0
  /\ stopped = FALSE
  /\ onstop = 0
  /\ stops = <<>>
  /\ runs = 0
  /\ lastOp = [op |-> "none", result |-> "none", dev |-> <<>>]
  /\ opCount = 0

\* the format negotiated at construction, on a platform that supports every
\* candidate
NegotiatedInit ==
  /\ supported = AllSupported
  /\ mimeType = getSupportedMimeType(supported)

\* the shared audio element before its first use
PlayerInit ==
  /\ audioSrc = NoSrc
  /\ audioMedia = NoSrc
  /\ mediaState = "empty"
  /\ audioPlaying = FALSE
  /\ onended = 0
  /\ onerror = 0
  /\ audioPrimed = FALSE
  /\ primes = <<>>
  /\ plays = <<>>
  /\ cb = <<>>

\* the app as it opens on the home screen, before any practice session
UiInit ==
  /\ screen = "home"
  /\ card = 0
  /\ phase = "ready"
  /\ recording = 0
  /\ recorderRef = 0
  /\ recognitionRef = FALSE
  /\ cleanupRef = FALSE
  /\ speaking = 0
  /\ stopping = {}
  /\ saving = {}
  /\ recorders = <<>>
  /\ playback = FALSE
  /\ playingId = 0
  /\ primeCalled = FALSE
  /\ playCalls = 0

\* the Recorder on any stream and platform; the audio element is not used
Init ==
  /\ RecorderInit /\ NegotiatedInit /\ audioLen = MaxData
  /\ UiInit /\ saved = 0 /\ speechSupported = FALSE
  /\ tracks \in SeqsUpTo(TrackStates, MaxTracks)
  /\ iosSafari \in BOOLEAN
  /\ PlayerInit
  /\ playReturnsPromise = TRUE

\* the audio element on any platform; the Recorder is not used
InitPlay ==
  /\ RecorderInit /\ NegotiatedInit /\ audioLen = MaxData
  /\ UiInit /\ saved = 0 /\ speechSupported = FALSE
  /\ tracks = <<>>
  /\ iosSafari = FALSE
  /\ PlayerInit
  /\ playReturnsPromise \in BOOLEAN

\* ---- Recorder.start() ----
start(fault) ==
  /\ opCount < MaxOps
  /\ now <= MaxTime
  /\ opCount' = opCount + 1
  /\ IF ~isStreamActive(tracks)
     THEN /\ lastOp' = [op |-> "start", result |-> "MIC_DEAD", dev |-> <<>>]
          /\ UNCHANGED <<chunks, stopped, startTime, recState, timeslice, runs>>
     ELSE LET r == MediaRecorderStart(recState, fault) IN
          /\ runs' = runs + 1
          /\ chunks' = <<>>
          /\ stopped' = FALSE
          /\ startTime' = now
          /\ recState' = r.state
          /\ timeslice' = IF r.threw THEN timeslice ELSE ~iosSafari
          /\ lastOp' = [op |-> "start",
                        result |-> IF r.threw THEN "DeviceError" ELSE "ok",
                        dev |-> <<"start">>]
  /\ UNCHANGED <<now, tracks, iosSafari, devQueue, dataSeq, onstop, stops>>
  /\ UNCHANGED <<playVars, uiVars, envVars>>

\* ---- Recorder.stop() ----
\* the safety timer armed by stop(): setTimeout(..., 3000)
StopTimer == StopTimeout

\* mutant: no catch around the stop instruction
TryStopUncaught(flush, flushThrows, stopThrows) ==
  [dev     |-> (IF flush THEN <<"requestData">> ELSE <<>>) \o <<"stop">>,
   queued  |-> (IF flush /\ ~flushThrows THEN <<"data">> ELSE <<>>)
               \o (IF stopThrows THEN <<>> ELSE <<"data", "stop">>),
   caught  |-> FALSE,
   escaped |-> stopThrows]

\* mutant: no catch around the flush request
TryStopFlushUncaught(flush, flushThrows, stopThrows) ==
  [dev     |-> IF flush /\ flushThrows THEN <<"requestData">>
               ELSE (IF flush THEN <<"requestData">> ELSE <<>>) \o <<"stop">>,
   queued  |-> IF flush /\ flushThrows THEN <<>>
               ELSE (IF flush THEN <<"data">> ELSE <<>>)
                    \o (IF stopThrows THEN <<>> ELSE <<"data", "stop">>),
   caught  |-> stopThrows \/ (flush /\ flushThrows),
   escaped |-> FALSE]

\* the try block of stop(): requestData() on iOS/Safari (its own try/catch),
\* then recorder.stop(); the outer catch absorbs a throwing stop instruction.
\* dev: instructions issued; queued: events the device queues in response
TryStop(flush, flushThrows, stopThrows) ==
  [dev     |-> (IF flush THEN <<"requestData">> ELSE <<>>) \o <<"stop">>,
   queued  |-> (IF flush /\ ~flushThrows THEN <<"data">> ELSE <<>>)
               \o (IF stopThrows THEN <<>> ELSE <<"data", "stop">>),
   caught  |-> stopThrows,
   escaped |-> FALSE]

\* mutant: the guard of stop() looks at the device only
stopGuardDeviceOnly == recState # "recording"

\* the guard of stop(): already stopped or never started
stopGuard == stopped \/ recState # "recording"

stop(flushThrows, stopThrows) ==
  /\ opCount < MaxOps
  /\ Len(stops) < MaxStops
  /\ now <= MaxTime
  /\ opCount' = opCount + 1
  /\ stopped' = TRUE
  /\ IF stopGuard
     THEN /\ stops' = Append(stops, [status |-> "resolved",
                                     rec |-> GuardRecording(chunks, startTime, now),
                                     timer |-> -1, at |-> now, run |-> runs])
          /\ lastOp' = [op |-> "stop", result |-> "ok", dev |-> <<>>]
          /\ UNCHANGED <<recState, devQueue, onstop>>
     ELSE LET t == TryStop(iosSafari, flushThrows, stopThrows)
              p == [status |-> "pending", rec |-> NoRecording,
                    timer |-> StopTimer, at |-> now, run |-> runs]
          IN /\ Len(devQueue) + Len(t.queued) <= MaxQueue
             /\ onstop' = Len(stops) + 1
             /\ recState' = IF stopThrows THEN recState ELSE "inactive"
             /\ devQueue' = devQueue \o t.queued
             /\ stops' = Append(stops,
                   IF t.escaped THEN [p EXCEPT !.status = "rejected"]
                   ELSE IF t.caught
                   THEN [p EXCEPT !.status = "resolved", !.timer = -1,
                                  !.rec = Recording(chunks, startTime, now)]
                   ELSE p)
             /\ lastOp' = [op |-> "stop", result |-> "ok", dev |-> t.dev]
  /\ UNCHANGED <<now, tracks, iosSafari, timeslice, dataSeq, chunks, startTime,
                 runs>>
  /\ UNCHANGED <<playVars, uiVars, envVars>>

\* ---- Recorder.cancel() ----
\* mutant: no catch around the stop instruction of cancel()
TryCancelUncaught(state, stopThrows) ==
  [dev     |-> IF state = "recording" THEN <<"stop">> ELSE <<>>,
   escaped |-> state = "recording" /\ stopThrows]

\* the try block of cancel(): recorder.stop() if the device is recording; the
\* catch swallows what it throws
TryCancel(state, stopThrows) ==
  [dev     |-> IF state = "recording" THEN <<"stop">> ELSE <<>>,
   escaped |-> FALSE]

\* mutant: cancel() also stops the tracks of the stream
cancelReleasing(stopThrows) ==
  /\ opCount < MaxOps
  /\ now <= MaxTime
  /\ opCount' = opCount + 1
  /\ stopped' = TRUE
  /\ tracks' = [i \in 1..Len(tracks) |-> "ended"]
  /\ lastOp' = [op |-> "cancel", result |-> "ok",
                dev |-> TryCancel(recState, stopThrows).dev]
  /\ UNCHANGED <<now, iosSafari, recState, timeslice, devQueue, dataSeq, chunks,
                 startTime, onstop, stops, runs>>
  /\ UNCHANGED <<playVars, uiVars, envVars>>

cancel(stopThrows) ==
  /\ opCount < MaxOps
  /\ now <= MaxTime
  /\ opCount' = opCount + 1
  /\ stopped' = TRUE
  /\ LET t == TryCancel(recState, stopThrows) IN
     /\ lastOp' = [op |-> "cancel",
                   result |-> IF t.escaped THEN "DeviceError" ELSE "ok",
                   dev |-> t.dev]
     /\ IF t.dev # <<>>
        THEN /\ Len(devQueue) + 2 <= MaxQueue
             /\ recState' = IF stopThrows THEN recState ELSE "inactive"
             /\ devQueue' = IF stopThrows THEN devQueue
                            ELSE devQueue \o <<"data", "stop">>
        ELSE UNCHANGED <<recState, devQueue>>
  /\ UNCHANGED <<now, tracks, iosSafari, timeslice, dataSeq, chunks, startTime,
                 onstop, stops, runs>>
  /\ UNCHANGED <<playVars, uiVars, envVars>>

\* ---- handlers the Recorder installs on the MediaRecorder ----
\* mutant: a delivery replaces what was buffered
ondataavailableLatest(cs, data) == IF Len(data) > 0 THEN <<data>> ELSE cs

\* mutant: empty data is buffered too
ondataavailableAll(cs, data) == Append(cs, data)

\* recorder.ondataavailable; data <<>> is a null or empty Blob
ondataavailable(cs, data) == IF Len(data) > 0 THEN Append(cs, data) ELSE cs

\* mutant: the completion handler leaves the timer armed
onstopHandlerNoClear(S, k) ==
  IF k = 0 THEN S
  ELSE Resolve(S, k, Recording(chunks, startTime, now))

\* recorder.onstop as installed by the k-th stop(); 0: no handler installed
onstopHandler(S, k) ==
  IF k = 0 THEN S
  ELSE Resolve(ClearTimeout(S, k), k, Recording(chunks, startTime, now))

\* mutant: the timer callback forgets to resolve
timeoutHandlerLost(S, k) == ClearTimeout(S, k)

\* the timer callback of the k-th stop()
timeoutHandler(S, k) ==
  Resolve(ClearTimeout(S, k), k, Recording(chunks, startTime, now))

\* ---- the platform: device events, the stream, the clock ----
\* the device delivers a queued dataavailable event: its data are the n units
\* of audio captured since the previous delivery
DeviceData(n) ==
  /\ devQueue # <<>> /\ Head(devQueue) = "data"
  /\ dataSeq + n <= audioLen
  /\ devQueue' = Tail(devQueue)
  /\ dataSeq' = dataSeq + n
  /\ chunks' = ondataavailable(chunks, Units(dataSeq, dataSeq + n))
  /\ UNCHANGED <<now, tracks, iosSafari, recState, timeslice, startTime,
                 stopped, onstop, stops, runs, lastOp, opCount>>
  /\ UNCHANGED <<playVars, uiVars, envVars>>

\* a timeslice elapses while recording with start(200): one unit is delivered
DeviceTimeslice ==
  /\ recState = "recording" /\ timeslice
  /\ dataSeq < audioLen
  /\ dataSeq' = dataSeq + 1
  /\ chunks' = ondataavailable(chunks, Units(dataSeq, dataSeq + 1))
  /\ UNCHANGED <<now, tracks, iosSafari, recState, timeslice, devQueue,
                 startTime, stopped, onstop, stops, runs, lastOp, opCount>>
  /\ UNCHANGED <<playVars, uiVars, envVars>>

\* the device delivers its completion (stop) event
DeviceStop ==
  /\ devQueue # <<>> /\ Head(devQueue) = "stop"
  /\ devQueue' = Tail(devQueue)
  /\ stops' = onstopHandler(stops, onstop)
  /\ UNCHANGED <<now, tracks, iosSafari, recState, timeslice, dataSeq, chunks,
                 startTime, stopped, onstop, runs, lastOp, opCount>>
  /\ UNCHANGED <<playVars, uiVars, envVars>>

\* the device reports an error while recording: recorder.onerror runs
DeviceError ==
  /\ recState = "recording"
  /\ Len(devQueue) + 2 <= MaxQueue
  /\ recState' = "inactive"
  /\ devQueue' = devQueue \o <<"data", "stop">>
  /\ stopped' = TRUE
  /\ UNCHANGED <<now, tracks, iosSafari, timeslice, dataSeq, chunks, startTime,
                 onstop, stops, runs, lastOp, opCount>>
  /\ UNCHANGED <<playVars, uiVars, envVars>>

\* a track of the stream ends (device unplugged, permission revoked)
TrackEnded(i) ==
  /\ i \in 1..Len(tracks) /\ tracks[i] = "live"
  /\ tracks' = [tracks EXCEPT ![i] = "ended"]
  /\ UNCHANGED <<now, iosSafari, recState, timeslice, devQueue, dataSeq, chunks,
                 startTime, stopped, onstop, stops, runs, lastOp, opCount>>
  /\ UNCHANGED <<playVars, uiVars, envVars>>

\* the MediaRecorder notices that every track has ended and stops itself
DeviceStreamEnded ==
  /\ recState = "recording"
  /\ \A i \in 1..Len(tracks) : tracks[i] = "ended"
  /\ Len(devQueue) + 2 <= MaxQueue
  /\ recState' = "inactive"
  /\ devQueue' = devQueue \o <<"data", "stop">>
  /\ UNCHANGED <<now, tracks, iosSafari, timeslice, dataSeq, chunks, startTime,
                 stopped, onstop, stops, runs, lastOp, opCount>>
  /\ UNCHANGED <<playVars, uiVars, envVars>>

\* the safety timer of the k-th stop() fires
StopTimerFires(k) ==
  /\ k \in 1..Len(stops) /\ stops[k].timer = 0
  /\ stops' = timeoutHandler(stops, k)
  /\ UNCHANGED <<now, tracks, iosSafari, recState, timeslice, devQueue, dataSeq,
                 chunks, startTime, stopped, onstop, runs, lastOp, opCount>>
  /\ UNCHANGED <<playVars, uiVars, envVars>>

\* one second passes; a timer that is due fires before time moves on
Tick ==
  /\ ~TimerDue
  /\ now < MaxTime \/ TimerActive
  /\ now' = now + 1
  /\ stops' = [k \in 1..Len(stops) |->
                 IF stops[k].timer > 0
                 THEN [stops[k] EXCEPT !.timer = stops[k].timer - 1]
                 ELSE stops[k]]
  /\ UNCHANGED <<tracks, iosSafari, recState, timeslice, devQueue, dataSeq,
                 chunks, startTime, stopped, onstop, runs, lastOp, opCount>>
  /\ UNCHANGED <<playVars, uiVars, envVars>>

\* createRecorder: const mimeType = getSupportedMimeType()
Negotiate ==
  /\ mimeType = Unset
  /\ mimeType' = getSupportedMimeType(supported)
  /\ UNCHANGED <<now, recVars, playVars, uiVars, supported, audioLen>>

\* createRecorder on any platform, up to the format negotiation
InitMime ==
  /\ RecorderInit
  /\ tracks = <<>> /\ iosSafari = FALSE
  /\ UiInit /\ saved = 0 /\ speechSupported = FALSE
  /\ PlayerInit /\ playReturnsPromise = TRUE
  /\ supported \in [Candidates -> {"yes", "no", "throws"}]
  /\ audioLen = MaxData
  /\ mimeType = Unset

NextMime == Negotiate

SpecMime == InitMime /\ [][NextMime]_vars

Next ==
  \/ \E fault \in BOOLEAN : start(fault)
  \/ \E flushThrows, stopThrows \in BOOLEAN : stop(flushThrows, stopThrows)
  \/ \E stopThrows \in BOOLEAN : cancel(stopThrows)
  \/ \E n \in 0..audioLen : DeviceData(n)
  \/ DeviceTimeslice
  \/ DeviceStop
  \/ DeviceError
  \/ \E i \in 1..MaxTracks : TrackEnded(i)
  \/ DeviceStreamEnded
  \/ \E k \in 1..MaxStops : StopTimerFires(k)
  \/ Tick

Spec == Init /\ [][Next]_vars

\* a Recorder over a live stream, on a platform with lump delivery (iOS/Safari)
\* or incremental delivery (the others), with MaxAudio units of audio to capture
InitDeliver ==
  /\ RecorderInit /\ NegotiatedInit /\ audioLen = MaxAudio
  /\ UiInit /\ saved = 0 /\ speechSupported = FALSE
  /\ tracks = <<"live">>
  /\ iosSafari \in BOOLEAN
  /\ PlayerInit
  /\ playReturnsPromise = TRUE

SpecDeliver == InitDeliver /\ [][Next]_vars

\* the Recorder with the scheduling the event loop guarantees: time passes and
\* a timer that is due fires; the device is free never to deliver its events
SpecLive ==
  /\ Init /\ [][Next]_vars
  /\ WF_vars(Tick)
  /\ \A k \in 1..MaxStops : WF_vars(StopTimerFires(k))

\* ======================= Output Primer and Player =======================
\* ---- primeAudio() ----
\* mutant: primeAudio() without its early return
PrimeSkipsNever == FALSE

\* the early return of primeAudio()
PrimeSkips == audioPrimed

primeAudio ==
  /\ Len(primes) < MaxPrimes /\ Len(primes) + Len(plays) < MaxCalls
  /\ IF PrimeSkips
     THEN /\ primes' = Append(primes, [did |-> FALSE, p |-> "none"])
          /\ UNCHANGED <<audioSrc, audioMedia, mediaState, audioPlaying>>
     ELSE /\ audioSrc' = SilentWav
          /\ audioMedia' = SilentWav
          /\ mediaState' = "loading"
          /\ audioPlaying' = TRUE
          /\ primes' = Append(primes,
                [did |-> TRUE,
                 p |-> IF playReturnsPromise THEN "pending" ELSE "none"])
  /\ cb' = <<>>
  /\ UNCHANGED <<now, recVars, uiVars, envVars, playReturnsPromise, onended, onerror, audioPrimed,
                 plays>>

\* mutant: a rejection clears the mark
primeSettledReset(primed, ok) == ok

\* mutant: the primer is marked however the promise settles
primeSettledAlways(primed, ok) == TRUE

\* audioPrimed after p.then(() => { audioPrimed = true }).catch(() => {})
primeSettled(primed, ok) == IF ok THEN TRUE ELSE primed

\* the promise of the silent playback settles: p.then(...) or .catch(...)
PrimeSettles(i, ok) ==
  /\ i \in 1..Len(primes) /\ primes[i].p = "pending"
  /\ primes' = [primes EXCEPT ![i].p = IF ok THEN "resolved" ELSE "rejected"]
  /\ audioPrimed' = primeSettled(audioPrimed, ok)
  /\ cb' = <<>>
  /\ UNCHANGED <<now, recVars, uiVars, envVars, playReturnsPromise, audioSrc, audioMedia,
                 mediaState, audioPlaying, onended, onerror, plays>>

\* ---- playBlob(): handlers and continuations of the k-th call ----
\* Each handler yields the caller's callbacks it invokes.
\* audio.onended as installed by the m-th playBlob; 0: null
onendedCalls(P, m) ==
  IF m # 0 /\ ~P[m].cancelled THEN <<[who |-> m, fn |-> "onEnded"]>> ELSE <<>>

\* audio.onerror as installed by the m-th playBlob; 0: null
onerrorCalls(P, m) ==
  IF m # 0 /\ ~P[m].cancelled THEN <<[who |-> m, fn |-> "onError"]>> ELSE <<>>

\* mutant: the catch block swallows the failure
catchCallsNone(P, k) == <<>>

\* mutant: the catch block calls onError without looking at cancelled
catchCallsUnguarded(P, k) == <<[who |-> k, fn |-> "onError"]>>

\* the catch block of the k-th pipeline
catchCalls(P, k) ==
  IF ~P[k].cancelled THEN <<[who |-> k, fn |-> "onError"]>> ELSE <<>>

\* the pipeline ends in its catch block
Caught(P, k) == [P EXCEPT ![k].pc = "caught"]

\* the pipeline ends at an `if (cancelled) return`
Returns(P, k) == [P EXCEPT ![k].pc = "returned"]

\* mutant: the continuation does not look at cancelled
afterWaitUnguarded(P, k) == [P EXCEPT ![k].pc = "starting"]

\* mutant: the wait is never settled
afterWaitStuck(P, k) == P

\* the continuation after the buffering wait: if (cancelled) return; audio.play()
afterWait(P, k) ==
  IF P[k].cancelled THEN Returns(P, k) ELSE [P EXCEPT ![k].pc = "starting"]

Buffering(P) == {k \in 1..Len(P) : P[k].pc = "buffering"}

RECURSIVE afterWaitAll(_, _)
\* onReady of every pipeline of the set K, in the order the listeners were added
afterWaitAll(P, K) ==
  IF K = {} THEN P
  ELSE LET k == CHOOSE x \in K : \A y \in K : x <= y
       IN  afterWaitAll(afterWait(P, k), K \ {k})

RECURSIVE catchAll(_, _)
\* onErr of every pipeline of the set K: each rejects into its catch block
catchAll(P, K) ==
  IF K = {} THEN P
  ELSE LET k == CHOOSE x \in K : \A y \in K : x <= y
       IN  catchAll(Caught(P, k), K \ {k})

RECURSIVE catchAllCalls(_, _)
\* the callbacks those catch blocks invoke
catchAllCalls(P, K) ==
  IF K = {} THEN <<>>
  ELSE LET k == CHOOSE x \in K : \A y \in K : x <= y
       IN  catchCalls(P, k) \o catchAllCalls(P, K \ {k})

RECURSIVE Count(_, _)
\* the callbacks of the sequence c counted per playback: calls is the number
\* of callbacks a playback has delivered: 0, 1, or 2 for two and more
Count(P, c) ==
  IF c = <<>> THEN P
  ELSE LET k == Head(c).who
       IN  Count([P EXCEPT ![k].calls = IF P[k].calls < 2 THEN P[k].calls + 1 ELSE 2],
                 Tail(c))

\* what the cleanup function reads and writes: the pipelines' flags and the
\* shared element
PlayerState ==
  [plays |-> plays, src |-> audioSrc, media |-> audioMedia, state |-> mediaState,
   playing |-> audioPlaying, onended |-> onended, onerror |-> onerror]

\* mutant: the listeners of the previous playback stay attached
haltInFlightOutputOnly(st) == [st EXCEPT !.playing = FALSE, !.src = NoSrc]

\* the synchronous head of playBlob(): audio.pause();
\* audio.removeAttribute("src"); audio.onended = null; audio.onerror = null
haltInFlight(st) ==
  [st EXCEPT !.playing = FALSE, !.src = NoSrc, !.onended = 0, !.onerror = 0]

playBlob ==
  /\ Len(plays) < MaxPlays /\ Len(primes) + Len(plays) < MaxCalls
  /\ LET st == haltInFlight(PlayerState)
     IN  /\ audioPlaying' = st.playing
         /\ audioSrc' = st.src
         /\ onended' = st.onended
         /\ onerror' = st.onerror
  /\ plays' = Append(plays, [pc |-> "converting", cancelled |-> FALSE, calls |-> 0])
  /\ cb' = <<>>
  /\ UNCHANGED <<now, recVars, uiVars, envVars, playReturnsPromise, audioMedia, mediaState,
                 audioPrimed, primes>>

\* blobToDataURI settles and the pipeline runs on to its next await
ConversionDone(k, ok, readyNow) ==
  /\ k \in 1..Len(plays) /\ plays[k].pc = "converting"
  /\ IF ~ok
     THEN /\ cb' = catchCalls(plays, k)
          /\ plays' = Count(Caught(plays, k), cb')
          /\ UNCHANGED <<audioSrc, audioMedia, mediaState, audioPlaying,
                         onended, onerror>>
     ELSE IF plays[k].cancelled
     THEN /\ cb' = <<>>
          /\ plays' = Returns(plays, k)
          /\ UNCHANGED <<audioSrc, audioMedia, mediaState, audioPlaying,
                         onended, onerror>>
     ELSE /\ cb' = <<>>
          /\ audioSrc' = k
          /\ audioMedia' = k
          /\ onended' = k
          /\ onerror' = k
          /\ IF readyNow
             THEN /\ mediaState' = "ready"
                  /\ audioPlaying' = TRUE
                  /\ plays' = afterWait(plays, k)
             ELSE /\ mediaState' = "loading"
                  /\ audioPlaying' = FALSE
                  /\ plays' = [plays EXCEPT ![k].pc = "buffering"]
  /\ UNCHANGED <<now, recVars, uiVars, envVars, playReturnsPromise, audioPrimed, primes>>

\* the element fires canplaythrough: every waiting pipeline goes on
DeviceCanPlay ==
  /\ mediaState = "loading"
  /\ mediaState' = "ready"
  /\ plays' = afterWaitAll(plays, Buffering(plays))
  /\ audioPlaying' = (audioPlaying \/ \E k \in Buffering(plays) : ~plays[k].cancelled)
  /\ cb' = <<>>
  /\ UNCHANGED <<now, recVars, uiVars, envVars, playReturnsPromise, audioSrc, audioMedia, onended,
                 onerror, audioPrimed, primes>>

\* the element fires error: audio.onerror runs, every waiting pipeline rejects
DeviceMediaError ==
  /\ mediaState \in {"loading", "ready"}
  /\ mediaState' = "error"
  /\ audioPlaying' = FALSE
  /\ cb' = onerrorCalls(plays, onerror) \o catchAllCalls(plays, Buffering(plays))
  /\ plays' = Count(catchAll(plays, Buffering(plays)), cb')
  /\ UNCHANGED <<now, recVars, uiVars, envVars, playReturnsPromise, audioSrc, audioMedia, onended,
                 onerror, audioPrimed, primes>>

\* the 3 s fallback of the k-th pipeline fires; it is armed while the pipeline
\* waits, and the other events of the element may come before or after it
BufferTimerFires(k) ==
  /\ k \in 1..Len(plays) /\ plays[k].pc = "buffering"
  /\ plays' = afterWait(plays, k)
  /\ audioPlaying' = (audioPlaying \/ ~plays[k].cancelled)
  /\ cb' = <<>>
  /\ UNCHANGED <<now, recVars, uiVars, envVars, playReturnsPromise, audioSrc, audioMedia,
                 mediaState, onended, onerror, audioPrimed, primes>>

\* the promise of audio.play() issued by the k-th pipeline settles
PlaySettles(k, ok) ==
  /\ k \in 1..Len(plays) /\ plays[k].pc = "starting"
  /\ cb' = IF ok THEN <<>> ELSE catchCalls(plays, k)
  /\ plays' = IF ok THEN [plays EXCEPT ![k].pc = "played"]
              ELSE Count(Caught(plays, k), cb')
  /\ UNCHANGED <<now, recVars, uiVars, envVars, playReturnsPromise, audioSrc, audioMedia,
                 mediaState, audioPlaying, onended, onerror, audioPrimed, primes>>

\* the element plays its resource to the end and fires ended
DeviceEnded ==
  /\ audioPlaying /\ mediaState = "ready"
  /\ audioPlaying' = FALSE
  /\ cb' = onendedCalls(plays, onended)
  /\ plays' = Count(plays, cb')
  /\ UNCHANGED <<now, recVars, uiVars, envVars, playReturnsPromise, audioSrc, audioMedia,
                 mediaState, onended, onerror, audioPrimed, primes>>

\* mutant: the cleanup function flips the flag
cleanupToggles(st, k) ==
  [st EXCEPT !.plays[k].cancelled = ~@, !.playing = FALSE,
             !.onended = 0, !.onerror = 0]

\* the body of the cleanup function of the k-th playBlob:
\* cancelled = true; audio.pause(); audio.onended = null; audio.onerror = null
cleanupBody(st, k) ==
  [st EXCEPT !.plays[k].cancelled = TRUE, !.playing = FALSE,
             !.onended = 0, !.onerror = 0]

\* the cleanup function returned by the k-th playBlob
cleanup(k) ==
  /\ k \in 1..Len(plays)
  /\ LET st == cleanupBody(PlayerState, k)
     IN  /\ plays' = st.plays
         /\ audioPlaying' = st.playing
         /\ onended' = st.onended
         /\ onerror' = st.onerror
  /\ cb' = <<>>
  /\ UNCHANGED <<now, recVars, uiVars, envVars, playReturnsPromise, audioSrc, audioMedia,
                 mediaState, audioPrimed, primes>>

NextPlay ==
  \/ primeAudio
  \/ \E i \in 1..MaxPrimes, ok \in BOOLEAN : PrimeSettles(i, ok)
  \/ playBlob
  \/ \E k \in 1..MaxPlays, ok, readyNow \in BOOLEAN : ConversionDone(k, ok, readyNow)
  \/ DeviceCanPlay
  \/ DeviceMediaError
  \/ \E k \in 1..MaxPlays : BufferTimerFires(k)
  \/ \E k \in 1..MaxPlays, ok \in BOOLEAN : PlaySettles(k, ok)
  \/ DeviceEnded
  \/ \E k \in 1..MaxPlays : cleanup(k)

SpecPlay == InitPlay /\ [][NextPlay]_vars

\* the audio element with the scheduling the event loop guarantees: a fallback
\* timer that is armed fires; the element is free never to fire its events
SpecPlayLive ==
  /\ InitPlay /\ [][NextPlay]_vars
  /\ \A k \in 1..MaxPlays : WF_vars(BufferTimerFires(k))

\* ======================= the practice UI =======================
\* App, Session, PromptCard and Progress as callers of the audio layer.  A
\* Recorder the UI has started is "recording" until stop() is called on it or
\* its device stops; "inactive" if recorder.start() threw.

\* the pending saves of a Session that is unmounted: card 0 stands for a card
\* of a Session that is gone, whose onComplete changes nothing on screen
Unmounted(S) == IF S = {} THEN {} ELSE {0}

\* a PromptCard is mounted: useState / useRef initial values (also the values
\* kept while no card is mounted)
Mount ==
  /\ phase' = "ready"
  /\ recording' = 0
  /\ recorderRef' = 0
  /\ recognitionRef' = FALSE
  /\ cleanupRef' = FALSE
  /\ speaking' = 0
  /\ stopping' = {}
  /\ playback' = FALSE

\* App.handleStartModule, Session mounts and requestMic() resolves
handleStartModule ==
  /\ screen = "home"
  /\ screen' = "session"
  /\ tracks' \in SeqsUpTo(TrackStates, MaxTracks)
  /\ card' = 1
  /\ recorders' = <<>>
  /\ Mount
  /\ saving' = Unmounted(saving)
  /\ UNCHANGED <<playingId, saved, primeCalled, playCalls, speechSupported>>
  /\ UNCHANGED <<now, iosSafari, recState, timeslice, devQueue, dataSeq, chunks,
                 startTime, stopped, onstop, stops, runs, lastOp, opCount, playVars, envVars>>

\* releaseMic(stream)
releaseMic(stream) == [i \in 1..Len(stream) |-> "ended"]

\* Session.handleQuit: the Back button of a session
handleQuit ==
  /\ screen = "session"
  /\ tracks' = releaseMic(tracks)
  /\ screen' = "home"
  /\ card' = 0
  /\ saving' = Unmounted(saving)
  /\ Mount
  /\ UNCHANGED <<recorders, playingId, saved, primeCalled, playCalls,
                 speechSupported>>
  /\ UNCHANGED <<now, iosSafari, recState, timeslice, devQueue, dataSeq, chunks,
                 startTime, stopped, onstop, stops, runs, lastOp, opCount, playVars, envVars>>

\* Session.handlePromptComplete as the onComplete of card c (its closure holds
\* currentIndex = c - 1), S being the saves still pending: after the last
\* prompt the stream is released and the summary is shown, else card c + 1 is
\* shown, newly mounted unless it is the card on screen
handlePromptComplete(c, S) ==
  IF c >= MaxCards
  THEN /\ tracks' = releaseMic(tracks)
       /\ screen' = "summary"
       /\ card' = 0
       /\ saving' = Unmounted(S)
       /\ Mount
  ELSE /\ card' = c + 1
       /\ saving' = S
       /\ IF c + 1 # card
          THEN Mount
          ELSE UNCHANGED <<phase, recording, recorderRef, recognitionRef,
                           cleanupRef, speaking, stopping, playback>>
       /\ UNCHANGED <<tracks, screen>>

\* the Done button of the summary (onFinish), Back on the Progress screen
handleFinish ==
  /\ screen \in {"summary", "progress"}
  /\ screen' = "home"
  /\ playingId' = 0
  /\ cleanupRef' = IF screen = "progress" THEN FALSE ELSE cleanupRef
  /\ playback' = IF screen = "progress" THEN FALSE ELSE playback
  /\ UNCHANGED <<card, phase, recording, recorderRef, recognitionRef, speaking,
                 stopping, saving, recorders, saved, primeCalled, playCalls,
                 speechSupported>>
  /\ UNCHANGED <<now, recVars, playVars, envVars>>

\* App.handleOpenProgress: Progress mounts
handleOpenProgress ==
  /\ screen = "home"
  /\ screen' = "progress"
  /\ playingId' = 0
  /\ cleanupRef' = FALSE
  /\ playback' = FALSE
  /\ UNCHANGED <<card, phase, recording, recorderRef, recognitionRef, speaking,
                 stopping, saving, recorders, saved, primeCalled, playCalls,
                 speechSupported>>
  /\ UNCHANGED <<now, recVars, playVars, envVars>>


\* what every PromptCard handler leaves alone
CardFrame ==
  /\ UNCHANGED <<playingId, speechSupported>>
  /\ UNCHANGED <<now, iosSafari, recState, timeslice, devQueue, dataSeq, chunks,
                 startTime, stopped, onstop, stops, runs, lastOp, opCount, playVars, envVars>>

\* PromptCard.handleListen: the Listen button
handleListen ==
  /\ screen = "session"
  /\ phase \notin {"recording", "stopping", "listening"}
  /\ speaking < MaxListens
  /\ primeCalled' = TRUE
  /\ phase' = "listening"
  /\ speaking' = speaking + 1
  /\ UNCHANGED <<tracks, screen, card, recording, recorderRef, recognitionRef,
                 cleanupRef, stopping, saving, recorders, playback, saved,
                 playCalls>>
  /\ CardFrame

\* speak() settles: handleListen goes on after its await (or its catch)
SpeakSettles ==
  /\ screen = "session"
  /\ speaking > 0
  /\ speaking' = speaking - 1
  /\ phase' = "ready"
  /\ UNCHANGED <<tracks, screen, card, recording, recorderRef, recognitionRef,
                 cleanupRef, stopping, saving, recorders, playback, saved,
                 primeCalled, playCalls>>
  /\ CardFrame

\* PromptCard.handleRecord: the Record button; fault: recorder.start() throws
handleRecord(fault) ==
  /\ screen = "session"
  /\ phase \in {"ready", "listening"}
  /\ Len(recorders) < MaxRecorders
  /\ primeCalled' = TRUE
  /\ cleanupRef' = FALSE
  /\ playback' = IF cleanupRef THEN FALSE ELSE playback
  /\ IF ~isStreamActive(tracks)
     THEN UNCHANGED <<recorders, recorderRef, recognitionRef, phase, recording>>
     ELSE /\ recorderRef' = Len(recorders) + 1
          /\ IF fault
             THEN /\ recorders' = Append(recorders, "inactive")
                  /\ UNCHANGED <<recognitionRef, phase, recording>>
             ELSE /\ recorders' = Append(recorders, "recording")
                  /\ recognitionRef' = (recognitionRef \/ speechSupported)
                  /\ phase' = "recording"
                  /\ recording' = 0
  /\ UNCHANGED <<tracks, screen, card, speaking, stopping, saving, saved,
                 playCalls>>
  /\ CardFrame

\* PromptCard.handleStopRecording up to its first await: the Stop button
handleStopRecording ==
  /\ screen = "session"
  /\ phase = "recording"
  /\ IF recorderRef = 0
     THEN /\ phase' = "ready"
          /\ UNCHANGED <<recorders, stopping>>
     ELSE /\ phase' = "stopping"
          /\ recorders' = [recorders EXCEPT ![recorderRef] = "stopped"]
          /\ stopping' = stopping \cup {[rec |-> recorderRef, pc |-> "stop"]}
  /\ UNCHANGED <<tracks, screen, card, recording, recorderRef, recognitionRef,
                 cleanupRef, speaking, saving, playback, saved, primeCalled,
                 playCalls>>
  /\ CardFrame

\* the promise of recorder.stop() resolves: handleStopRecording goes on to
\* its second await, or to its end when there is no recognition
StopResolves(c) ==
  /\ screen = "session"
  /\ c \in stopping /\ c.pc = "stop"
  /\ recorderRef' = 0
  /\ recording' = c.rec
  /\ IF recognitionRef
     THEN /\ stopping' = (stopping \ {c}) \cup {[c EXCEPT !.pc = "result"]}
          /\ UNCHANGED phase
     ELSE /\ stopping' = stopping \ {c}
          /\ phase' = "recorded"
  /\ UNCHANGED <<tracks, screen, card, recognitionRef, cleanupRef, speaking,
                 saving, recorders, playback, saved, primeCalled, playCalls>>
  /\ CardFrame

\* recognitionRef.current.getResult() settles
ResultSettles(c) ==
  /\ screen = "session"
  /\ c \in stopping /\ c.pc = "result"
  /\ stopping' = stopping \ {c}
  /\ recognitionRef' = FALSE
  /\ phase' = "recorded"
  /\ UNCHANGED <<tracks, screen, card, recording, recorderRef, cleanupRef,
                 speaking, saving, recorders, playback, saved, primeCalled,
                 playCalls>>
  /\ CardFrame

\* PromptCard.handlePlayback: the Play Back button
handlePlayback ==
  /\ screen = "session"
  /\ phase = "recorded"
  /\ recording # 0
  /\ playCalls < MaxUiPlays
  /\ phase' = "playing"
  /\ playCalls' = playCalls + 1
  /\ cleanupRef' = TRUE
  /\ playback' = TRUE
  /\ UNCHANGED <<tracks, screen, card, recording, recorderRef, recognitionRef,
                 speaking, stopping, saving, recorders, saved, primeCalled>>
  /\ CardFrame

\* onEnded or onError of the playback in flight, as passed to playBlob by
\* PromptCard.handlePlayback or by Progress.handlePlay
PlaybackCallback ==
  /\ playback
  /\ playback' = FALSE
  /\ IF screen = "progress"
     THEN /\ playingId' = 0
          /\ cleanupRef' = FALSE
          /\ UNCHANGED phase
     ELSE /\ phase' = "recorded"
          /\ UNCHANGED <<playingId, cleanupRef>>
  /\ UNCHANGED <<screen, card, recording, recorderRef, recognitionRef, speaking,
                 stopping, saving, recorders, saved, primeCalled, playCalls,
                 speechSupported>>
  /\ UNCHANGED <<now, recVars, playVars, envVars>>

\* PromptCard.handleTryAgain: the Try Again button
handleTryAgain ==
  /\ screen = "session"
  /\ phase \in {"recorded", "playing"}
  /\ cleanupRef' = FALSE
  /\ playback' = IF cleanupRef THEN FALSE ELSE playback
  /\ recording' = 0
  /\ phase' = "ready"
  /\ UNCHANGED <<tracks, screen, card, recorderRef, recognitionRef, speaking,
                 stopping, saving, recorders, saved, primeCalled, playCalls>>
  /\ CardFrame

\* PromptCard.handleComplete: the Next / Finish button; nonEmpty: the blob of
\* the recording has a size above 0, and the handler waits for saveRecording()
handleComplete(nonEmpty) ==
  /\ screen = "session"
  /\ phase \in {"recorded", "playing"}
  /\ IF recording # 0 /\ nonEmpty
     THEN /\ card \notin saving
          /\ saving' = saving \cup {card}
          /\ cleanupRef' = FALSE
          /\ playback' = IF cleanupRef THEN FALSE ELSE playback
          /\ UNCHANGED <<tracks, screen, card, phase, recording, recorderRef,
                         recognitionRef, speaking, stopping>>
     ELSE handlePromptComplete(card, saving)
  /\ UNCHANGED <<recorders, saved, primeCalled, playCalls>>
  /\ CardFrame

\* saveRecording() of card c settles: handleComplete goes on to onComplete()
SaveDone(c) ==
  /\ c \in saving
  /\ saved' = IF saved < MaxSaved THEN saved + 1 ELSE saved
  /\ IF c = 0
     THEN /\ saving' = saving \ {c}
          /\ UNCHANGED <<tracks, screen, card, phase, recording, recorderRef,
                         recognitionRef, cleanupRef, speaking, stopping, playback>>
     ELSE handlePromptComplete(c, saving \ {c})
  /\ UNCHANGED <<recorders, primeCalled, playCalls>>
  /\ CardFrame

\* the Skip button: onComplete
handleSkip ==
  /\ screen = "session"
  /\ phase \in {"ready", "listening"}
  /\ handlePromptComplete(card, saving)
  /\ UNCHANGED <<recorders, saved, primeCalled, playCalls>>
  /\ CardFrame

\* Progress.handlePlay(rec): a recording card of the Progress screen
handlePlay(id) ==
  /\ screen = "progress"
  /\ id \in 1..saved
  /\ IF playingId = id
     THEN /\ playingId' = 0
          /\ cleanupRef' = FALSE
          /\ playback' = IF cleanupRef THEN FALSE ELSE playback
          /\ UNCHANGED playCalls
     ELSE /\ playCalls < MaxUiPlays
          /\ playingId' = id
          /\ playCalls' = playCalls + 1
          /\ cleanupRef' = TRUE
          /\ playback' = TRUE
  /\ UNCHANGED <<screen, card, phase, recording, recorderRef, recognitionRef,
                 speaking, stopping, saving, recorders, saved, primeCalled,
                 speechSupported>>
  /\ UNCHANGED <<now, recVars, playVars, envVars>>

\* the device of the i-th Recorder stops capturing without a stop() call: it
\* reports an error, or every track of the stream has ended
RecorderDeviceStops(i) ==
  /\ i \in 1..Len(recorders) /\ recorders[i] = "recording"
  /\ recorders' = [recorders EXCEPT ![i] = "stopped"]
  /\ UNCHANGED <<screen, card, phase, recording, recorderRef, recognitionRef,
                 cleanupRef, speaking, stopping, saving, playback, playingId,
                 saved, primeCalled, playCalls, speechSupported>>
  /\ UNCHANGED <<now, recVars, playVars, envVars>>

NextUI ==
  \/ handleStartModule
  \/ handleQuit
  \/ handleFinish
  \/ handleOpenProgress
  \/ handleListen
  \/ SpeakSettles
  \/ \E fault \in BOOLEAN : handleRecord(fault)
  \/ handleStopRecording
  \/ \E c \in stopping : StopResolves(c)
  \/ \E c \in stopping : ResultSettles(c)
  \/ handlePlayback
  \/ PlaybackCallback
  \/ handleTryAgain
  \/ \E nonEmpty \in BOOLEAN : handleComplete(nonEmpty)
  \/ \E c \in 0..MaxCards : SaveDone(c)
  \/ handleSkip
  \/ \E id \in 1..MaxSaved : handlePlay(id)
  \/ \E i \in 1..MaxRecorders : RecorderDeviceStops(i)
  \/ \E i \in 1..MaxTracks : TrackEnded(i)

\* the app from its home screen, with recordings of earlier runs in the store
InitUI ==
  /\ RecorderInit /\ NegotiatedInit /\ audioLen = MaxData
  /\ tracks = <<>>
  /\ iosSafari = FALSE
  /\ PlayerInit
  /\ playReturnsPromise = TRUE
  /\ UiInit
  /\ saved \in 0..MaxSaved
  /\ speechSupported \in BOOLEAN

SpecUI == InitUI /\ [][NextUI]_vars

\* ======================= claims: Recorder =======================
Pending(k) == k \in 1..Len(stops) /\ stops[k].status = "pending"
Resolved(k) == k \in 1..Len(stops) /\ stops[k].status = "resolved"

\* C1: every stop() call resolves, and does so no later than StopTimeout
\* seconds after the call, whatever the device delivers or fails to deliver:
\* no promise is pending beyond StopTimeout, and (the calls being finitely
\* many) from some point on every promise returned is resolved.
C1_StopResolves ==
  /\ [](\A k \in 1..MaxStops : Pending(k) => now - stops[k].at <= StopTimeout)
  /\ <>[](\A k \in 1..Len(stops) : Resolved(k))

\* C1 witness: a stop() resolved by the timer alone: the completion signal is
\* still undelivered and the device never delivered any data.
C1_Witness ==
  \E k \in 1..Len(stops) :
    /\ stops[k].status = "resolved"
    /\ stops[k].rec.duration = StopTimeout
    /\ "stop" \in {devQueue[i] : i \in 1..Len(devQueue)}
    /\ dataSeq = 0

\* C2 (as claimed): any two stop() calls of one recording run that have
\* resolved hold the identical artifact (same audio, same duration).
C2_StopIdempotent ==
  \A j, k \in 1..Len(stops) :
    (stops[j].status = "resolved" /\ stops[k].status = "resolved"
       /\ stops[j].run = stops[k].run)
    => stops[j].rec = stops[k].rec

NoTrackLive == \A i \in 1..Len(tracks) : tracks[i] # "live"
StartStep == opCount' = opCount + 1 /\ lastOp'.op = "start"

\* C6 (as claimed): a start() on a stream that is not live fails with MIC_DEAD,
\* issues no device instruction, leaves buffer, start timestamp and state as
\* they were, and isRecording() is false afterwards.
C6_Original ==
  [][(StartStep /\ NoTrackLive) =>
       /\ lastOp'.result = "MIC_DEAD" /\ lastOp'.dev = <<>>
       /\ UNCHANGED <<chunks, startTime, stopped, recState>>
       /\ ~isRecording']_vars

\* C6 (amended): a start() on a stream that is not live fails with MIC_DEAD,
\* issues no device instruction, and leaves buffer, start timestamp, state
\* and the value of isRecording() as they were.
C6_StartMicDead ==
  [][(StartStep /\ NoTrackLive) =>
       /\ lastOp'.result = "MIC_DEAD" /\ lastOp'.dev = <<>>
       /\ UNCHANGED <<chunks, startTime, stopped, recState>>
       /\ isRecording' = isRecording]_vars

\* C6 witness: start() failed with MIC_DEAD on a stream that was live when an
\* earlier start() of the same Recorder succeeded.
C6_Witness ==
  /\ lastOp.op = "start" /\ lastOp.result = "MIC_DEAD"
  /\ startTime # 0

\* C7: no promise returned by stop() is ever rejected and stop() never throws:
\* every stop() is pending or resolved with an artifact.
C7_StopNeverFails ==
  \A k \in 1..Len(stops) : stops[k].status \in {"pending", "resolved"}

\* C7 witness: the stop instruction threw (the device is still recording) and
\* stop() resolved at once with what was buffered.
C7_Witness ==
  /\ lastOp.op = "stop" /\ lastOp.dev # <<>>
  /\ recState = "recording"
  /\ stops[Len(stops)].status = "resolved"
  /\ stops[Len(stops)].rec.blob = buildBlob(chunks)

\* C8 (as claimed): MIC_DEAD is the only error a Recorder call surfaces.
C8_OnlyMicDead == lastOp.result \in {"none", "ok", "MIC_DEAD"}

Finalized == stopped /\ \A k \in 1..Len(stops) : stops[k].status # "pending"

StopStep == opCount' = opCount + 1 /\ lastOp'.op = "stop"

\* C11: a stop() call made when the Recorder is already stopping or stopped
\* (the stopped flag is set) issues neither a flush request nor a stop
\* instruction to the device, and leaves the device state and its queue alone.
C11_StopNoDevice ==
  [][(StopStep /\ stopped) =>
       (lastOp'.dev = <<>> /\ UNCHANGED <<recState, devQueue, onstop>>)]_vars

\* C11 witness: a second stop() while the first is still pending (stopping),
\* in the same recording run, issued nothing.
C11_Witness ==
  /\ Len(stops) = 2
  /\ stops[1].status = "pending" /\ stops[1].run = stops[2].run
  /\ lastOp.op = "stop" /\ lastOp.dev = <<>>

StartOkStep == StartStep /\ lastOp'.result = "ok"
StopCall == \E flushThrows, stopThrows \in BOOLEAN : stop(flushThrows, stopThrows)
CancelCall == \E stopThrows \in BOOLEAN : cancel(stopThrows)

\* C12 (as claimed): isRecording() is false before start(), true after a
\* successful start(), false at once after stop(), cancel() and a device
\* error event, and in between (the Recorder being in state recording) true.
C12_Original ==
  /\ (runs = 0 => ~isRecording)
  /\ [][/\ runs' = 0 => ~isRecording'
        /\ StartOkStep => isRecording'
        /\ (StopCall \/ CancelCall \/ DeviceError) => ~isRecording'
        /\ (isRecording /\ ~(StopCall \/ CancelCall \/ DeviceError))
             => isRecording']_vars

\* C12 (amended): isRecording() is false before start(), true after a
\* successful start(), false at once after stop(), cancel() and a device
\* error event; in between it stays true until the device stops capturing on
\* its own (every track of the stream has ended), which makes it false too.
C12_IsRecording ==
  /\ (runs = 0 => ~isRecording)
  /\ [][/\ runs' = 0 => ~isRecording'
        /\ StartOkStep => isRecording'
        /\ (StopCall \/ CancelCall \/ DeviceError) => ~isRecording'
        /\ (isRecording /\ ~(StopCall \/ CancelCall \/ DeviceError
                               \/ DeviceStreamEnded))
             => isRecording']_vars

\* C12 witness: right after a successful start() a device error event came:
\* no stop() or cancel() was called and isRecording() is false.
C12_Witness ==
  /\ opCount = 1 /\ lastOp.op = "start" /\ lastOp.result = "ok"
  /\ stopped /\ ~isRecording

\* ======================= claims: Player and Output Primer =======================
Invoked == {cb'[i].who : i \in 1..Len(cb')}

\* C3: once the cleanup function of a playback has been called, no later step
\* invokes its onEnded or its onError.
C3_CancelSilences ==
  [][\A k \in Invoked : ~plays[k].cancelled]_vars

\* C3 witness: a pipeline cancelled in flight ended in its catch block (the
\* conversion, the buffering wait or play() failed) and has called nothing.
C3_Witness ==
  \E k \in 1..Len(plays) :
    plays[k].cancelled /\ plays[k].pc = "caught" /\ plays[k].calls = 0

\* C4 (as claimed): once a later playBlob() has been called, no callback of an
\* earlier playback is invoked (its cleanup function never having been called).
C4_Superseded ==
  [][\A j \in Invoked : ~(j < Len(plays) /\ ~plays[j].cancelled)]_vars

\* a step in which the pipeline of the j-th playBlob writes to the device:
\* it sets src and the listeners, or issues audio.play()
DeviceWrite(j) ==
  \/ plays[j].pc = "converting" /\ plays'[j].pc \in {"buffering", "starting"}
  \/ plays[j].pc = "buffering" /\ plays'[j].pc = "starting"

\* C5 (as claimed): once a later playBlob() has been called, the pipeline of
\* an earlier one never writes to the device, and the source on the device is
\* that of the most recent playBlob().
C5_OneWriter ==
  [][\A j \in 1..Len(plays) :
       j < Len(plays) => (~DeviceWrite(j) /\ audioSrc' # j)]_vars

\* a step in which the pipeline of the k-th playBlob fails: the conversion
\* fails, the element reports an error while it waits, or play() is rejected
Fails(k) ==
  \/ \E readyNow \in BOOLEAN : ConversionDone(k, FALSE, readyNow)
  \/ DeviceMediaError /\ k \in Buffering(plays)
  \/ PlaySettles(k, FALSE)

InvokedOnError == {cb'[i].who : i \in {j \in 1..Len(cb') : cb'[j].fn = "onError"}}

\* C13: when the pipeline of a playback that has not been cancelled fails at
\* any stage, that step invokes its onError and the pipeline ends in its catch
\* block: the failure goes nowhere else.
C13_FailureToOnError ==
  [][\A k \in 1..Len(plays) :
       (Fails(k) /\ ~plays[k].cancelled)
       => (k \in InvokedOnError /\ plays'[k].pc = "caught")]_vars

\* C13 witness: the element reported an error while a playback waited for
\* readiness: its onerror handler and its catch block both called onError.
C13_Witness ==
  \E k \in 1..Len(plays) :
    /\ plays[k].pc = "caught" /\ ~plays[k].cancelled
    /\ mediaState = "error"
    /\ cb = <<[who |-> k, fn |-> "onError"], [who |-> k, fn |-> "onError"]>>

\* C14: the buffering wait never blocks forever: whatever the element does or
\* fails to report, from some point on no pipeline is waiting (the playBlob()
\* calls being finitely many), and a pipeline not cancelled that leaves the
\* wait without an error of the element issues audio.play().
C14_BufferingEnds ==
  /\ [][\A k \in Buffering(plays) :
         (plays'[k].pc # "buffering" /\ ~plays[k].cancelled /\ ~DeviceMediaError)
         => (plays'[k].pc = "starting" /\ audioPlaying')]_vars
  /\ <>[](Buffering(plays) = {})

\* C14 witness: the latest playback, not cancelled, has issued audio.play()
\* on its own source while the element has reported neither readiness nor an
\* error: the fallback timer let it through.
C14_Witness ==
  /\ plays # <<>>
  /\ plays[Len(plays)].pc = "starting" /\ ~plays[Len(plays)].cancelled
  /\ audioSrc = Len(plays) /\ mediaState = "loading"

PrimeStep == Len(primes') = Len(primes) + 1

\* C15: the primer is marked primed only in the step in which the promise of
\* a silent playback resolves; a promise that rejects is absorbed and leaves
\* the mark as it was; and a primeAudio() call made while the primer is not
\* marked performs the unlock interaction (sets the silent source and plays).
C15_PrimedOnResolve ==
  [][/\ (audioPrimed' /\ ~audioPrimed)
          => \E i \in 1..Len(primes) :
               primes[i].p = "pending" /\ primes'[i].p = "resolved"
     /\ \A i \in 1..Len(primes) :
          (primes[i].p = "pending" /\ primes'[i].p = "rejected")
          => (audioPrimed' = audioPrimed /\ cb' = <<>>)
     /\ (PrimeStep /\ ~audioPrimed)
          => (primes'[Len(primes')].did /\ audioSrc' = SilentWav /\ audioPlaying')]_vars

\* C15 witness: the first silent playback was rejected, the primer is not
\* marked, and the next call has performed the unlock interaction again.
C15_Witness ==
  /\ Len(primes) = 2 /\ ~audioPrimed
  /\ primes[1].p = "rejected"
  /\ primes[2].did /\ primes[2].p = "pending"
  /\ audioSrc = SilentWav /\ audioPlaying

\* C16: once the primer is marked primed it stays marked in every later step,
\* and a primeAudio() call made while it is marked leaves the element as it
\* is: source, media, playing state and both handlers unchanged.
C16_PrimedForever ==
  [][/\ audioPrimed => audioPrimed'
     /\ (PrimeStep /\ audioPrimed)
          => (~primes'[Len(primes')].did
              /\ UNCHANGED <<audioSrc, audioMedia, mediaState, audioPlaying,
                             onended, onerror>>)]_vars

\* C16 witness: a primeAudio() call after the mark was set, made while the
\* silent sound of the first call still plays, changed nothing.
C16_Witness ==
  /\ audioPrimed /\ Len(primes) = 2 /\ ~primes[2].did
  /\ plays = <<>> /\ audioSrc = SilentWav /\ audioPlaying

\* the k-th playback is in flight: not cancelled, and its pipeline is running
\* or its sound is playing on the element
InFlight(k) ==
  /\ ~plays[k].cancelled
  /\ \/ plays[k].pc \in {"converting", "buffering", "starting"}
     \/ plays[k].pc = "played" /\ audioPlaying /\ audioMedia = k

\* C17 (as claimed): a primeAudio() call made while a playback is in flight
\* leaves the source, the playing state and the handlers of the element
\* unchanged.
C17_PrimeLeavesPlayback ==
  [][(PrimeStep /\ \E k \in 1..Len(plays) : InFlight(k))
     => UNCHANGED <<audioSrc, audioMedia, audioPlaying, onended, onerror>>]_vars

\* C18: in every state, whatever stage each pipeline is at, the cleanup
\* function of every playback can run (it has no failing path), and running
\* it a second time right after the first leaves the pipelines and the
\* element exactly as the first run left them.
C18_CleanupIdempotent ==
  \A k \in 1..Len(plays) :
    /\ ENABLED cleanup(k)
    /\ LET once == cleanupBody(PlayerState, k)
       IN  cleanupBody(once, k) = once

\* C18 witness: cleanup functions were called at different stages: one after
\* its playback had started playing, one while its conversion was running.
C18_Witness ==
  /\ Len(plays) = 2
  /\ plays[1].cancelled /\ plays[1].pc = "played"
  /\ plays[2].cancelled /\ plays[2].pc = "converting"

Unlocks == Cardinality({i \in 1..Len(primes) : primes[i].did})

\* C9 (as claimed): when no unlock attempt fails, two primeAudio() calls
\* perform the unlock interaction once in total, whether the first call's
\* promise had resolved or was still pending at the second call.
C9_Original ==
  (Len(primes) >= 2 /\ audioPrimed
     /\ \A i \in 1..Len(primes) : primes[i].p # "rejected")
  => Unlocks = 1

\* C9 (amended): a primeAudio() call made after the promise of an earlier
\* silent playback has resolved performs no unlock interaction: it leaves the
\* device as it is.
C9_PrimeOnceResolved ==
  [][(Len(primes') = Len(primes) + 1
        /\ \E i \in 1..Len(primes) : primes[i].p = "resolved")
     => (Unlocks' = Unlocks
           /\ UNCHANGED <<audioSrc, audioMedia, mediaState, audioPlaying>>)]_vars

\* C9 witness: two calls, the first unlocked the device and its promise
\* resolved, the second did nothing.
C9_Witness ==
  /\ Len(primes) = 2
  /\ primes[1].did /\ primes[1].p = "resolved"
  /\ ~primes[2].did
  /\ Unlocks = 1

\* ======================= claims: the practice UI =======================
\* C19 (as claimed): the UI never starts a Recorder on the session's stream
\* while a Recorder it started earlier on that stream is still recording.
C19_OneRecorderAtATime ==
  [][Len(recorders') = Len(recorders) + 1
     => \A i \in 1..Len(recorders) : recorders[i] # "recording"]_vars

\* C20 (as claimed): every playBlob() call of the UI is made after a
\* primeAudio() call made in a user-input handler.
C20_PrimeBeforePlay ==
  [][playCalls' = playCalls + 1 => primeCalled]_vars

\* ======================= claims: Format Negotiator =======================
\* positions of the candidates the capability query reports as supported
SupportedAt == {i \in 1..Len(types) : supported[types[i]] = "yes"}

\* C21: the negotiated format is the first candidate, in list order, that the
\* capability query reports as supported, and the empty string when none is;
\* a candidate whose query throws counts as not supported, nothing is
\* propagated and the scan goes on with the next candidate.
C21_FirstSupported ==
  mimeType # Unset =>
    IF SupportedAt = {} THEN mimeType = ""
    ELSE \E i \in SupportedAt :
           /\ mimeType = types[i]
           /\ \A j \in SupportedAt : i <= j

\* the query threw for the first candidate and the scan went on to the second
C21_Witness ==
  /\ supported[types[1]] = "throws"
  /\ supported[types[2]] = "yes"
  /\ mimeType = types[2]

\* ======================= claims: Stream Health Monitor =======================
AllTracks(stream, st) == \A i \in 1..Len(stream) : stream[i] = st

\* C22: isStreamActive(stream) is false for a stream with no audio track and
\* for a stream whose audio tracks have ended, true for a stream whose audio
\* tracks are live, and never true without a live audio track; start() goes by
\* it: it fails with MIC_DEAD exactly when isStreamActive(stream) is false.
C22_LiveIffTrackLive ==
  /\ [](/\ Len(tracks) = 0 => ~isStreamActive(tracks)
        /\ (Len(tracks) > 0 /\ AllTracks(tracks, "ended")) => ~isStreamActive(tracks)
        /\ (Len(tracks) > 0 /\ AllTracks(tracks, "live")) => isStreamActive(tracks)
        /\ isStreamActive(tracks) => \E i \in 1..Len(tracks) : tracks[i] = "live")
  /\ [][StartStep => (lastOp'.result = "MIC_DEAD" <=> ~isStreamActive(tracks))]_vars

\* start() passed the check while the track was live, and a later start() on
\* the same stream failed after the track had ended
C22_Witness ==
  /\ runs > 0
  /\ Len(tracks) > 0 /\ tracks[1] = "ended"
  /\ lastOp.op = "start" /\ lastOp.result = "MIC_DEAD"

\* ======================= claims: Recorder, the artifact =======================
\* the step settles the k-th promise: a pending one is resolved, or stop()
\* returns one already resolved
Settles(k) ==
  /\ k \in 1..Len(stops') /\ stops'[k].status = "resolved"
  /\ k \in 1..Len(stops) => stops[k].status = "pending"

C24_RaceSettledOnce ==
  [][/\ \A k \in 1..Len(stops) :
          /\ Resolved(k) => (stops'[k].status = "resolved" /\ stops'[k].rec = stops[k].rec)
          /\ stops[k].timer = -1 => stops'[k].timer = -1
          /\ StopTimerFires(k) => Pending(k)
     /\ (DeviceStop /\ Pending(onstop))
          => (stops'[onstop].status = "resolved" /\ stops'[onstop].timer = -1)
     /\ (DeviceStop /\ ~Pending(onstop))
          => (stops' = stops /\ UNCHANGED <<stopped, recState, chunks, startTime>>)]_vars

\* the timer settled the promise with an empty artifact; the device then
\* delivered its data and its completion signal
C24_Witness ==
  /\ runs = 1 /\ onstop # 0 /\ devQueue = <<>>
  /\ Resolved(onstop) /\ stops[onstop].rec.blob = <<>>
  /\ stops[onstop].rec.duration = stops[onstop].at + StopTimeout - startTime
  /\ chunks # <<>>

\* ======================= claims: Recorder, stop() and cancel() =======================
\* C25: a stop() made while recording issues, on iOS/Safari, a flush request
\* and then the stop instruction, whether or not the flush request throws, and
\* on other platforms the stop instruction alone: one stop instruction in
\* either case.
C25_FlushThenStop ==
  [][\A flushThrows, stopThrows \in BOOLEAN :
       (stop(flushThrows, stopThrows) /\ ~stopGuard) =>
          lastOp'.dev = IF iosSafari THEN <<"requestData", "stop">> ELSE <<"stop">>]_vars

\* on iOS/Safari the flush request threw (no data event queued for it) and the
\* stop instruction was issued all the same
C25_Witness ==
  /\ iosSafari
  /\ runs = 1 /\ opCount = 2
  /\ lastOp.op = "stop" /\ lastOp.dev = <<"requestData", "stop">>
  /\ devQueue = <<"data", "stop">>

\* C26: when the device throws at the stop instruction, stop() returns a
\* promise already resolved with the artifact built from the buffer as it is,
\* with its safety timer cancelled, and the Recorder is stopped; no resolved
\* promise ever has a timer still armed.
C26_ThrowingStopFinalizes ==
  /\ [](\A k \in 1..Len(stops) : Resolved(k) => stops[k].timer = -1)
  /\ [][\A flushThrows \in BOOLEAN :
          (stop(flushThrows, TRUE) /\ ~stopGuard) =>
             /\ Len(stops') = Len(stops) + 1
             /\ stops'[Len(stops')].status = "resolved"
             /\ stops'[Len(stops')].rec = [blob |-> buildBlob(chunks), duration |-> now - startTime]
             /\ stops'[Len(stops')].timer = -1
             /\ stopped' /\ ~isRecording']_vars

\* the stop instruction threw: the device is still recording, nothing was
\* queued, and the promise is resolved with the chunk buffered before
C26_Witness ==
  /\ runs = 1 /\ opCount = 2
  /\ lastOp.op = "stop" /\ lastOp.dev = <<"stop">>
  /\ recState = "recording" /\ devQueue = <<>>
  /\ Resolved(1) /\ stops[1].rec.blob = buildBlob(chunks) /\ chunks # <<>>

\* C27: cancel() never throws; it issues the stop instruction exactly when the
\* device is recording at that moment, and nothing else; after it the stopped
\* flag is set and isRecording() is false, even if the instruction threw; and
\* a stop() that follows resolves at once without touching the device.
C27_CancelStops ==
  [][/\ \A stopThrows \in BOOLEAN : cancel(stopThrows) =>
          /\ lastOp'.result = "ok"
          /\ lastOp'.dev = IF recState = "recording" THEN <<"stop">> ELSE <<>>
          /\ stopped' /\ ~isRecording' /\ stopGuard'
     /\ (StopStep /\ lastOp.op = "cancel") =>
          /\ lastOp'.dev = <<>>
          /\ stops'[Len(stops')].status = "resolved"
          /\ UNCHANGED <<recState, devQueue, onstop>>]_vars

\* cancel() was called while recording and its stop instruction threw (the
\* device still records); the stop() after it resolved without any instruction
C27_Witness ==
  /\ runs = 1 /\ opCount = 3 /\ Len(stops) = 1
  /\ lastOp.op = "stop" /\ lastOp.dev = <<>>
  /\ recState = "recording" /\ stopped
  /\ Resolved(1)

\* C28: a stop() settled while the device has delivered no data has empty
\* audio; its duration is the time elapsed since start() (startTime) at the
\* moment it is settled, and on a Recorder that was never started stop()
\* returns at once a promise resolved with empty audio and duration 0.
C28_EmptyArtifact ==
  [][\A k \in 1..Len(stops') : (Settles(k) /\ dataSeq' = 0) =>
        /\ stops'[k].rec.blob = <<>>
        /\ runs' > 0 => stops'[k].rec.duration = now' - startTime'
        /\ runs' = 0 => (/\ stops'[k].rec.duration = 0
                         /\ k = Len(stops) + 1)]_vars

\* a stop() before any start() gave empty audio and duration 0; after start()
\* and some time without data a second stop() gave empty audio and the time
\* elapsed
C28_Witness ==
  /\ Len(stops) = 2 /\ dataSeq = 0
  /\ Resolved(1) /\ stops[1].run = 0 /\ stops[1].rec = [blob |-> <<>>, duration |-> 0]
  /\ Resolved(2) /\ stops[2].run = 1
  /\ stops[2].rec.blob = <<>> /\ stops[2].rec.duration > 0

\* ======================= claims: Player, superseding =======================
\* C30: when playBlob() returns, the element is paused, its src attribute is
\* removed and its onended and onerror are null, and the new pipeline has
\* written nothing to the element: it is at its first await, and its writes
\* (src, listeners, load, play) come in later steps only.
C30_HaltBeforePipeline ==
  [][/\ Len(plays') = Len(plays) + 1 =>
          /\ ~audioPlaying' /\ audioSrc' = NoSrc
          /\ onended' = 0 /\ onerror' = 0
          /\ plays'[Len(plays')].pc = "converting"
          /\ UNCHANGED <<audioMedia, mediaState>>
     /\ \A k \in 1..MaxPlays :
          (audioSrc' = k /\ audioSrc # k) \/ (onended' = k /\ onended # k)
            \/ (onerror' = k /\ onerror # k)
          => k \in 1..Len(plays) /\ plays[k].pc = "converting"]_vars

\* a second playBlob() has just returned while the first playback was on the
\* element: its resource is still loaded, src and listeners are gone
C30_Witness ==
  /\ Len(plays) = 2
  /\ plays[2].pc = "converting" /\ ~plays[2].cancelled /\ ~plays[1].cancelled
  /\ plays[1].pc \in {"starting", "played"}
  /\ audioMedia = 1 /\ audioSrc = NoSrc
  /\ onended = 0 /\ onerror = 0 /\ ~audioPlaying

\* ======================= claims: Recorder, delivery modes =======================
\* C29: on a Recorder started once, the artifact that the device's completion
\* signal settles a pending stop() with is all the audio the device has
\* captured, in order, with the time elapsed since start(): it is the same
\* whether the audio came in slices during the recording or in a lump at
\* stop time.
C29_SameArtifact ==
  [][(DeviceStop /\ Pending(onstop) /\ runs = 1) =>
        stops'[onstop].rec = [blob |-> Units(0, dataSeq),
                              duration |-> now - startTime]]_vars

\* incremental delivery: the audio came in two chunks and the artifact is
\* what one lump of the two units would have given
C29_Witness ==
  /\ timeslice /\ runs = 1
  /\ chunks = << <<1>>, <<2>> >>
  /\ onstop # 0 /\ Resolved(onstop)
  /\ stops[onstop].rec.blob = <<1, 2>>
  /\ stops[onstop].rec.blob = buildBlob(<< <<1, 2>> >>)

\* ======================= claims: Player, cancellation =======================
\* the step writes to the element on behalf of the k-th pipeline
WritesSource(k) ==
  \/ audioSrc' = k /\ audioSrc # k
  \/ audioMedia' = k /\ audioMedia # k
  \/ onended' = k /\ onended # k
  \/ onerror' = k /\ onerror # k

\* C31: a pipeline cancelled while its conversion is running never sets the
\* source nor attaches its listeners, and one cancelled before its buffering
\* wait ends never issues the play instruction: it ends at a return or in its
\* catch block, a cancelled flag is never cleared and an ended pipeline does
\* nothing more.
C31_CancelStopsPipeline ==
  [][\A k \in 1..Len(plays) :
       /\ plays[k].cancelled => plays'[k].cancelled
       /\ (plays[k].cancelled /\ plays[k].pc = "converting")
            => (~WritesSource(k) /\ plays'[k].pc \in {"converting", "returned", "caught"})
       /\ (plays[k].cancelled /\ plays[k].pc = "buffering")
            => (~WritesSource(k) /\ plays'[k].pc \in {"buffering", "returned", "caught"})
       /\ plays[k].pc \in {"returned", "caught"}
            => (~WritesSource(k) /\ plays'[k].pc = plays[k].pc)]_vars

\* the playback set its source, was cancelled during the buffering wait and
\* returned when the wait ended, without the play instruction
C31_Witness ==
  /\ Len(plays) = 1 /\ primes = <<>>
  /\ plays[1].cancelled /\ plays[1].pc = "returned"
  /\ audioMedia = 1 /\ mediaState = "ready"
  /\ ~audioPlaying

\* C32 (as claimed): the callbacks of a playBlob() call are invoked at most
\* once in total: never onError twice, never both onEnded and onError.
C32_AtMostOneCallback == \A k \in 1..Len(plays) : plays[k].calls <= 1

\* C33 (as claimed): the cleanup function of a playback called after a later
\* playBlob() has put its own listeners on the element leaves that later
\* playback alone: the element keeps playing and keeps its listeners.
C33_CleanupAffectsOwn ==
  [][\A j \in 1..Len(plays) :
       (cleanup(j) /\ onended > j /\ onerror > j)
         => UNCHANGED <<audioPlaying, onended, onerror>>]_vars

\* ======================= claims: Player, the shared element =======================
\* C34 (as claimed): a step invokes the onEnded of a playback only when the
\* sound that ended on the element is that playback's own artifact.
C34_OwnSoundEnded ==
  [][\A i \in 1..Len(cb') :
       cb'[i].fn = "onEnded" => audioMedia = cb'[i].who]_vars

\* ======================= claims: Recorder, failed start() =======================
\* C35 (as claimed): a start() that fails, with MIC_DEAD or with an error of
\* the device, leaves the buffer, the start timestamp, the stopped flag and
\* the device state as they were.
C35_FailedStartNoEffect ==
  [][(StartStep /\ lastOp'.result # "ok")
       => UNCHANGED <<chunks, startTime, stopped, recState>>]_vars

\* ======================= claims: Recorder, the stream =======================
\* C37: a call on the Recorder (start, stop, cancel; isRecording only reads)
\* leaves every track of the stream in the state it was in.
C37_StreamUntouched ==
  [][opCount' # opCount => tracks' = tracks]_vars

\* start(), stop() and cancel() have all been called on a Recorder whose
\* stream is still live
C37_Witness ==
  /\ opCount = 3 /\ runs = 1 /\ Len(stops) = 1
  /\ lastOp.op = "cancel"
  /\ isStreamActive(tracks)

\* the practice UI where the promise of every recorder.stop() resolves (the
\* stop timer of the Recorder sees to it); nothing makes the speech
\* recognition report its end, so getResult() may stay pending
SpecUILive ==
  /\ InitUI /\ [][NextUI]_vars
  /\ WF_vars(\E c \in stopping : StopResolves(c))

\* ======================= claims: PromptCard, the Stop button ===============

\* C36: after Stop is pressed during a recording the card is in the stopping
\* phase at once, and the stopping phase always ends: the card reaches the
\* recorded phase (or is left by the user), whether or not the capture device
\* signals completion and whether or not the speech recognition reports its end
C36_StoppingEnds ==
  /\ [][(handleStopRecording /\ recorderRef # 0) => phase' = "stopping"]_vars
  /\ (phase = "stopping") ~> (phase # "stopping")

====
